---- MODULE Spec2Model ----
(***************************************************************************)
(* A model of puzzle.board (the Board of puzzle pieces), puzzle.piece      *)
(* .template (the Piece) and puzzle.builder.adjacent (the Adjacent         *)
(* builder) of the puzzle solver.                                          *)
(*                                                                         *)
(* Python objects are modelled as a small heap: a Piece is an instance     *)
(* with the attributes id and rLoc, a Board holds a reference to its       *)
(* container of pieces (a Python list or a numpy array) and its own        *)
(* id_count.  Two Boards may hold a reference to the same container, and   *)
(* one Piece instance may be an element of several containers.             *)
(***************************************************************************)
EXTENDS Integers, Sequences, FiniteSets, TLC

\* ------------------------------------------------------------------ bounds
MaxCount == 2      \* addPiece is cut off once a Board's id_count reaches it
MaxLen   == 2      \* a container never grows beyond this length, and no
                   \* index list handed to getSubset / getAssigned is longer
MaxMeasured == 2   \* a measured Board handed to the Solver holds at most
                   \* this many pieces
MaxTurns == 3      \* frames are handed to a Planner until its Solver has
                   \* emitted this many actions
MaxContours == 3   \* a mask holds at most this many contours, its border
                   \* not counted
MaxFrames == 2     \* a parser measures at most this many frames

\* Two Piece instances and two Board variables: a Piece and another Piece,
\* a Board and another Board.
Pieces == {1, 2}
Boards == {1, 2}
Objs   == Boards     \* addresses of containers: one per Board suffices

\* A Piece carries no attribute id before its first insertion
\* (template.__init__ sets y and rLoc only).
NoId == -1

VARIABLES
  pid,        \* pid[p]      : Piece p's attribute id (NoId: not set)
  rLoc,       \* rLoc[p]     : Piece p's location <<x, y>>
  pieces,     \* pieces[b]   : the address of Board b's container self.pieces
  id_count,   \* id_count[b] : Board b's self.id_count
  heap,       \* heap[o]     : the container at address o: [kind, items]
  last,       \* the last call made: [op, board, arg, outcome, sel]
  assigned,   \* history: the highest id addPiece handed out over Board b's
              \*          lifetime (NoId: none yet)
  sinceClear, \* history: the highest id addPiece handed out since Board b
              \*          was constructed or last cleared (NoId: none yet)
  adj,        \* the Adjacent builder: [built, solution, tauAdj, adjMat, tests]
  file,       \* the persisted calibration record: [saved, pieces, hasTau,
              \*   tauAdj, adjMat]; adjMat is history: the matrix the
              \*   builder held when it was saved
  loaded,     \* the builder buildFromFile_Puzzle returned:
              \*   [built, pieces, tauAdj, adjMat]
  manager,    \* the Manager: [scores, pAssignments]
  solver,     \* the Solver: [current, desired, match, plan, turns]; turns is
              \*   history: the number of actions takeTurn has emitted
  agent,      \* the Agent: [cache_actions, managerRuns, turnRuns]; the two
              \*   counts are history: the runs of Manager.process and of
              \*   Solver.takeTurn during the last call of Agent.process
  frame,      \* history: the last frame handed to Planner_Base.process:
              \*   [meaBoard, scores, managed, current, match]
  parser,     \* the fromLayer parser: [bMeas, haveMeas, tpt, frames]; frames
              \*   is history: the number of measure calls made
  tstate      \* the Board a caller obtained from getState: [ref, seen];
              \*   seen is history: the Board as it was when returned

boardVars == <<pid, rLoc, pieces, id_count, heap, assigned, sinceClear>>
fileVars == <<file, loaded>>
planVars == <<manager, solver>>
agentVars == <<agent, frame>>
parseVars == <<parser, tstate>>
vars == <<pid, rLoc, pieces, id_count, heap, last, assigned, sinceClear, adj,
          file, loaded, manager, solver, agent, frame, parser, tstate>>

\* ------------------------------------------------------------ the pieces
\* template.size(): the tight bounding-box size of the piece image, fixed at
\* creation.  Piece p is a p x 1 rectangle (every size is > 0).
PieceSize(p) == <<p, 1>>

\* ------------------------------------------------------------- the heap
EmptyList == [kind |-> "list", items |-> <<>>]

Range(s) == {s[i] : i \in DOMAIN s}

Max(a, b) == IF a >= b THEN a ELSE b
Min(a, b) == IF a <= b THEN a ELSE b

\* The address a newly allocated container gets when Board b's reference is
\* rebound: the lowest address no other Board refers to.
Fresh(refs, b) ==
  LET used == {refs[c] : c \in Boards \ {b}}
      free == Objs \ used
  IN  CHOOSE o \in free : \A q \in free : o <= q

\* Containers no Board refers to are garbage: their addresses are free again.
Collect(h, refs) ==
  [o \in Objs |-> IF o \in Range(refs) THEN h[o] ELSE EmptyList]

Items(b) == heap[pieces[b]].items
Kind(b)  == heap[pieces[b]].kind

\* board.size()
Size(b) == Len(Items(b))

\* The ids of the pieces of Board b, in order.
Ids(b) == [i \in 1..Size(b) |-> pid[Items(b)[i]]]

\* The record of a call: the operation, the Board it was made on, its
\* argument (addPiece: the piece; rmPiece: the id; board(src): src;
\* getSubset/getAssigned: the Board variable the result is bound to) and how
\* it ended: "ok", or the exception that left it; sel is the index list or
\* the assignment handed to getSubset / getAssigned.
CallSel(op, b, arg, outcome, sel) ==
  [op |-> op, board |-> b, arg |-> arg, outcome |-> outcome, sel |-> sel]

Call(op, b, arg, outcome) == CallSel(op, b, arg, outcome, <<>>)

\* No Adjacent builder has been constructed.
NoBuilder ==
  [built |-> FALSE, solution |-> 0, tauAdj |-> 0, adjMat |-> <<>>, tests |-> <<>>]

\* ------------------------------------------------------------------ Init
\* Every Board variable holds board(): its own empty list and id_count 0.
\* Every Piece is template(y): no id yet, rLoc = (0, 0).
\* No calibration has been saved, none has been loaded.
NoFile == [saved |-> FALSE, pieces |-> <<>>, hasTau |-> FALSE, tauAdj |-> 0,
           adjMat |-> <<>>]
NoLoaded == [built |-> FALSE, pieces |-> <<>>, tauAdj |-> 0, adjMat |-> <<>>]

\* A Manager that has processed no measurement, a Solver without boards.
NoManager == [scores |-> <<>>, pAssignments |-> <<>>]
NoPlan == [type |-> "None", piece |-> 0, index |-> 0]
NoSolver == [current |-> <<>>, desired |-> <<>>, match |-> <<>>,
             plan |-> NoPlan, turns |-> 0]

\* An Agent that has planned nothing: self.cache_actions = None.
NoAgent == [cache_actions |-> <<>>, managerRuns |-> 0, turnRuns |-> 0]
NoFrame == [meaBoard |-> <<>>, scores |-> <<>>, managed |-> <<>>,
            current |-> <<>>, match |-> <<>>]

\* board(): no pieces, id_count 0.  fromLayer(): self.bMeas = board(), no
\* measurement yet.  No Board has been obtained from getState.
EmptyBoard == [pieces |-> <<>>, id_count |-> 0]
NewParser == [bMeas |-> EmptyBoard, haveMeas |-> FALSE, tpt |-> <<>>,
              frames |-> 0]
NoState == [ref |-> "None", seen |-> EmptyBoard]

Init ==
  /\ pid = [p \in Pieces |-> NoId]
  /\ rLoc = [p \in Pieces |-> <<0, 0>>]
  /\ pieces = [b \in Boards |-> b]
  /\ id_count = [b \in Boards |-> 0]
  /\ heap = [o \in Objs |-> EmptyList]
  /\ last = Call("init", 0, 0, "ok")
  /\ assigned = [b \in Boards |-> NoId]
  /\ sinceClear = [b \in Boards |-> NoId]
  /\ adj = NoBuilder
  /\ file = NoFile
  /\ loaded = NoLoaded
  /\ manager = NoManager
  /\ solver = NoSolver
  /\ agent = NoAgent
  /\ frame = NoFrame
  /\ parser = NewParser
  /\ tstate = NoState

\* --------------------------------------------------------------- addPiece
\* A faulty addPiece that forgets to advance the counter.
NextIdCount_Stuck(n) == n

\* self.id_count += 1
NextIdCount(n) == n + 1

\* board.addPiece(piece): piece.id = self.id_count; self.id_count += 1;
\* self.pieces.append(piece).  A numpy array has no append: on a Board made
\* by getSubset/getAssigned the third statement raises AttributeError after
\* the first two took effect.
AddPiece(b, p) ==
  /\ id_count[b] < MaxCount
  /\ Kind(b) = "list" => Size(b) < MaxLen
  /\ pid' = [pid EXCEPT ![p] = id_count[b]]
  /\ id_count' = [id_count EXCEPT ![b] = NextIdCount(id_count[b])]
  /\ assigned' = [assigned EXCEPT ![b] = Max(@, id_count[b])]
  /\ sinceClear' = [sinceClear EXCEPT ![b] = Max(@, id_count[b])]
  /\ IF Kind(b) = "list"
       THEN /\ heap' = [heap EXCEPT ![pieces[b]].items = Append(@, p)]
            /\ last' = Call("addPiece", b, p, "ok")
       ELSE /\ heap' = heap
            /\ last' = Call("addPiece", b, p, "AttributeError")
  /\ UNCHANGED <<rLoc, pieces>>

\* ---------------------------------------------------------------- rmPiece
None == -1

\* The loop of rmPiece: the 0-based index of the first piece whose id is
\* the argument, None when the loop ends without a break.
RmIndex(b, id) ==
  LET hits == {i \in 1..Size(b) : pid[Items(b)[i]] = id}
  IN  IF hits = {} THEN None
      ELSE (CHOOSE i \in hits : \A j \in hits : i <= j) - 1

\* Python's truth value of rm_index in `if rm_index:`; None and 0 are false.
Truthy(rm_index) == rm_index # None /\ rm_index # 0

\* del s[idx], idx 0-based
DelAt(s, idx) ==
  [i \in 1..(Len(s) - 1) |-> IF i <= idx THEN s[i] ELSE s[i + 1]]

\* board.rmPiece(id).  del on a numpy array raises ValueError.
RmPiece(b, id) ==
  LET rm_index == RmIndex(b, id) IN
  /\ IF Truthy(rm_index)
       THEN IF Kind(b) = "list"
              THEN /\ heap' = [heap EXCEPT ![pieces[b]].items = DelAt(@, rm_index)]
                   /\ last' = Call("rmPiece", b, id, "ok")
              ELSE /\ heap' = heap
                   /\ last' = Call("rmPiece", b, id, "ValueError")
       ELSE /\ heap' = heap
            /\ last' = Call("rmPiece", b, id, "ok")
  /\ UNCHANGED <<pid, rLoc, pieces, id_count, assigned, sinceClear>>

\* ------------------------------------------------------------------ clear
\* self.id_count = 0
ClearedCount == 0

\* board.clear(): self.pieces = [] binds a new empty list, the container
\* held before is left as it is (another Board may still refer to it).
Clear(b) ==
  LET o == Fresh(pieces, b)
      refs == [pieces EXCEPT ![b] = o]
  IN
  /\ pieces' = refs
  /\ heap' = Collect([heap EXCEPT ![o] = EmptyList], refs)
  /\ id_count' = [id_count EXCEPT ![b] = ClearedCount]
  /\ sinceClear' = [sinceClear EXCEPT ![b] = NoId]
  /\ last' = Call("clear", b, 0, "ok")
  /\ UNCHANGED <<pid, rLoc, assigned>>

\* ------------------------------------------------------------ constructors
\* b = board(src): self.pieces = argv[0].pieces takes the reference to the
\* container of src, self.id_count = argv[0].id_count copies the number.
BoardFromBoard(b, src) ==
  LET refs == [pieces EXCEPT ![b] = pieces[src]] IN
  /\ b # src
  /\ pieces' = refs
  /\ heap' = Collect(heap, refs)
  /\ id_count' = [id_count EXCEPT ![b] = id_count[src]]
  /\ assigned' = [assigned EXCEPT ![b] = NoId]
  /\ sinceClear' = [sinceClear EXCEPT ![b] = NoId]
  /\ last' = Call("board", b, src, "ok")
  /\ UNCHANGED <<pid, rLoc>>

\* b = board(array, count): the two-argument constructor used by getSubset
\* and getAssigned; the array is a new numpy array.
BoardFromArray(b, items, count, call) ==
  LET o == Fresh(pieces, b)
      refs == [pieces EXCEPT ![b] = o]
  IN
  /\ pieces' = refs
  /\ heap' = Collect([heap EXCEPT ![o] = [kind |-> "ndarray", items |-> items]], refs)
  /\ id_count' = [id_count EXCEPT ![b] = count]
  /\ assigned' = [assigned EXCEPT ![b] = NoId]
  /\ sinceClear' = [sinceClear EXCEPT ![b] = NoId]
  /\ last' = call
  /\ UNCHANGED <<pid, rLoc>>

\* ------------------------------------------------- getSubset, getAssigned
\* np.array(self.pieces)[idx]: a new array holding, for each 0-based index
\* of idx in turn, the element of self.pieces at that index.
Select(items, idx) == [k \in 1..Len(idx) |-> items[idx[k] + 1]]

\* The index lists of length <= MaxLen that are valid for a container of
\* length n.
IndexLists(n) == UNION {[1..k -> 0..(n - 1)] : k \in 0..MaxLen}

\* b = src.getSubset(subset)
GetSubset(b, src, subset) ==
  /\ b # src
  /\ BoardFromArray(b, Select(Items(src), subset), Len(subset),
                    CallSel("getSubset", src, b, "ok", subset))

\* A faulty getAssigned that indexes by column 1, the solution indices.
SecondColumn(pAssignments) ==
  [k \in 1..Len(pAssignments) |-> pAssignments[k][2]]

\* np.array(pAssignments)[:, 0]: the first field of every tuple.
FirstColumn(pAssignments) ==
  [k \in 1..Len(pAssignments) |-> pAssignments[k][1]]

\* The assignments handed to getAssigned: an array of one row per tuple, so
\* that column 0 exists (at least one tuple, at most MaxLen); the first
\* fields are valid indices of a container of length n, the k-th tuple
\* pairs its measured index i with the solution index (n - 1) - i.
Assignments(n) ==
  {[k \in 1..Len(idx) |-> <<idx[k], (n - 1) - idx[k]>>] : idx \in IndexLists(n) \ {<<>>}}

\* b = src.getAssigned(pAssignments)
GetAssigned(b, src, pAssignments) ==
  /\ b # src
  /\ BoardFromArray(b, Select(Items(src), FirstColumn(pAssignments)),
                    id_count[src], CallSel("getAssigned", src, b, "ok", pAssignments))

\* ----------------------------------------------------------- setPlacement
\* np.ceil(n / 2) for an integer n
CeilHalf(n) == (n + 1) \div 2

\* template.setPlacement(r, isCenter)
NewLoc(p, r, isCenter) ==
  IF isCenter
    THEN <<r[1] - CeilHalf(PieceSize(p)[1]), r[2] - CeilHalf(PieceSize(p)[2])>>
    ELSE r

SetPlacement(p, r, isCenter) ==
  /\ rLoc' = [rLoc EXCEPT ![p] = NewLoc(p, r, isCenter)]
  /\ last' = Call("setPlacement", 0, p, "ok")
  /\ UNCHANGED <<pid, pieces, id_count, heap, assigned, sinceClear>>

\* The coordinates the drivers place pieces at.
Coords == {-2, 1}

\* ------------------------------------------------------- pieceLocations
\* pLocs[key] = value on a Python dict
DictPut(d, key, value) ==
  [x \in DOMAIN d \cup {key} |-> IF x = key THEN value ELSE d[x]]

\* The loop of pieceLocations over the first k pieces of items.
RECURSIVE PLocLoop(_, _)
PLocLoop(items, k) ==
  IF k = 0 THEN [x \in {} |-> <<0, 0>>]
  ELSE DictPut(PLocLoop(items, k - 1), pid[items[k]], rLoc[items[k]])

\* board.pieceLocations(): the dict of piece id -> location
PieceLocations(b) == PLocLoop(Items(b), Size(b))

\* ------------------------------------------------- boundingBox, extents
\* A cell of the float array bbox: float('inf') or a number.
FInf == [inf |-> TRUE, v |-> 0]
Fin(x) == [inf |-> FALSE, v |-> x]

\* np.min([a, x]) and np.max([a, x]) of a cell and a number
FMin(a, x) == IF a.inf THEN Fin(x) ELSE Fin(Min(a.v, x))
FMax(a, x) == IF a.inf THEN a ELSE Fin(Max(a.v, x))

\* bbox = np.array([[float('inf'), float('inf')], [0, 0]])
BBoxInit == <<<<FInf, FInf>>, <<Fin(0), Fin(0)>>>>

\* A faulty bottom right corner that leaves the piece's size out.
BottomRight_NoSize(p) == rLoc[p]

\* tl = piece.rLoc and br = piece.rLoc + piece.size()
TopLeft(p) == rLoc[p]
BottomRight(p) == <<rLoc[p][1] + PieceSize(p)[1], rLoc[p][2] + PieceSize(p)[2]>>

\* The loop of boundingBox over the first k pieces of items.
RECURSIVE BBoxLoop(_, _)
BBoxLoop(items, k) ==
  IF k = 0 THEN BBoxInit
  ELSE LET bbox == BBoxLoop(items, k - 1)
           tl == TopLeft(items[k])
           br == BottomRight(items[k])
       IN  << <<FMin(bbox[1][1], tl[1]), FMin(bbox[1][2], tl[2])>>,
              <<FMax(bbox[2][1], br[1]), FMax(bbox[2][2], br[2])>> >>

\* What board.boundingBox() returns on a Board with pieces:
\* <<<<min x, min y>>, <<max x, max y>>>>
BoundingBox(b) ==
  LET bbox == BBoxLoop(Items(b), Size(b))
  IN  << <<bbox[1][1].v, bbox[1][2].v>>, <<bbox[2][1].v, bbox[2][2].v>> >>

\* What board.extents() returns on a Board with pieces: bbox[1] - bbox[0]
Extents(b) ==
  LET bbox == BoundingBox(b)
  IN  <<bbox[2][1] - bbox[1][1], bbox[2][2] - bbox[1][2]>>

\* How a call of boundingBox() ends.  On a Board without pieces it prints
\* 'No pieces exist' and calls exit(): SystemExit leaves the call, and with
\* no argument to exit() the process ends with status 0.
BoundingBoxOutcome(b) == IF Size(b) = 0 THEN "SystemExit" ELSE "ok"

\* The call b.boundingBox(); the Board is only read.
BoundingBoxCall(b) ==
  /\ last' = Call("boundingBox", b, 0, BoundingBoxOutcome(b))
  /\ UNCHANGED boardVars

\* The call b.extents(): it calls boundingBox() first.
ExtentsCall(b) ==
  /\ last' = Call("extents", b, 0, BoundingBoxOutcome(b))
  /\ UNCHANGED boardVars

\* exit() has ended the process: no call follows it.
Running == last.outcome # "SystemExit"

\* ---------------------------------------------------------------- toImage
\* No canvas is handed to toImage: theImage = None
NoCanvas == <<>>

\* The canvases handed to toImage: theImage.shape[:2] = <<rows, columns>>
CanvasSides == {2, 4, 6}
Canvases == CanvasSides \X CanvasSides

\* (theImage.shape[:2] - lengths > 0).all(), lengths being extents(): the
\* rows against lengths[0] and the columns against lengths[1]
CanvasAccepted(shape, lengths) ==
  shape[1] - lengths[1] > 0 /\ shape[2] - lengths[2] > 0

\* theImage = np.zeros((lengths[1], lengths[0], 3)): rows, then columns
OwnCanvas(lengths) == <<lengths[2], lengths[1]>>

\* piece.placeInImage(theImage, offset = -bbox[0]): the piece is written at
\* offset + rLoc; an index beyond the canvas raises IndexError
StampAt(p, bbox) == <<rLoc[p][1] - bbox[1][1], rLoc[p][2] - bbox[1][2]>>
Fits(p, pos, shape) ==
  pos[1] + PieceSize(p)[1] <= shape[2] /\ pos[2] + PieceSize(p)[2] <= shape[1]

\* if ID_DISPLAY == True, on a canvas that was handed in: the piece is
\* placed and labelled, or neither
PlacedOnGiven(ID_DISPLAY) == ID_DISPLAY

\* The loop over the first k pieces: [stamps, labels, outcome]; stamps are
\* the pieces written with their places, labels the ids written
RECURSIVE ImageLoop(_, _, _, _, _, _)
ImageLoop(items, k, bbox, shape, place, label) ==
  IF k = 0 THEN [stamps |-> {}, labels |-> {}, outcome |-> "ok"]
  ELSE LET done == ImageLoop(items, k - 1, bbox, shape, place, label)
           p == items[k]
           pos == StampAt(p, bbox)
       IN  IF done.outcome # "ok" \/ ~place THEN done
           ELSE IF ~Fits(p, pos, shape)
                  THEN [done EXCEPT !.outcome = "IndexError"]
                  ELSE [stamps |-> done.stamps \cup {<<p, pos>>},
                        labels |-> IF label THEN done.labels \cup {pid[p]}
                                   ELSE done.labels,
                        outcome |-> "ok"]

\* board.toImage(theImage, ID_DISPLAY) on a Board with pieces
ToImageResult(b, theImage, ID_DISPLAY) ==
  LET lengths == Extents(b)
      bbox == BoundingBox(b)
  IN  IF theImage # NoCanvas
        THEN IF CanvasAccepted(theImage, lengths)
               THEN ImageLoop(Items(b), Size(b), bbox, theImage,
                              PlacedOnGiven(ID_DISPLAY), ID_DISPLAY)
               ELSE [stamps |-> {}, labels |-> {}, outcome |-> "RuntimeError"]
        ELSE ImageLoop(Items(b), Size(b), bbox, OwnCanvas(lengths),
                       TRUE, ID_DISPLAY)

\* The call b.toImage(theImage, ID_DISPLAY): it calls extents() first, which
\* ends the process on a Board without pieces; the Board is only read.
ToImage(b, theImage, ID_DISPLAY) ==
  /\ last' =
       IF Size(b) = 0
         THEN CallSel("toImage", b, 0, BoundingBoxOutcome(b),
                      <<theImage, ID_DISPLAY, {}, {}>>)
         ELSE LET res == ToImageResult(b, theImage, ID_DISPLAY) IN
              CallSel("toImage", b, 0, res.outcome,
                      <<theImage, ID_DISPLAY, res.stamps, res.labels>>)
  /\ UNCHANGED boardVars

\* ------------------------------------------------------- testAdjacent
\* piece.y.contour: the boundary pixels of the piece's mask, as (x, y) in
\* the piece's own frame.  Every pixel of a p x 1 rectangle is a boundary
\* pixel.
Contour(p) == {<<x, 0>> : x \in 0..(PieceSize(p)[1] - 1)}

\* np.flip(np.where(piece.y.contour)) + piece.rLoc: the boundary in board
\* coordinates
PtsAt(p, loc) == {<<c[1] + loc[1], c[2] + loc[2]>> : c \in Contour(p)}

\* The boundary of the Piece instance p, at its present location
BoardPts(p) == PtsAt(p, rLoc[p])

\* num_samples of obtain_sub_pts
NumSamples == 500

\* np.random.choice(np.arange(len(pts)), num_samples) draws with
\* replacement: the points picked are any non-empty set of at most
\* num_samples boundary points.
Samples(pts) == {s \in SUBSET pts : s # {} /\ Cardinality(s) <= NumSamples}

\* The square of the Euclidean distance cdist computes
Dist2(a, b) == (a[1] - b[1]) * (a[1] - b[1]) + (a[2] - b[2]) * (a[2] - b[2])

\* A faulty comparison: distance <= tauAdj
Below_OrEqual(d2, tau) == tau >= 0 /\ d2 <= tau * tau

\* distance < tauAdj, on the square of the distance (a distance is >= 0)
Below(d2, tau) == tau > 0 /\ d2 < tau * tau

\* dists.min() < tauAdj for the sampled points sA and sB
SampledFlag(sA, sB, tau) == \E a \in sA, b \in sB : Below(Dist2(a, b), tau)

\* The flags testAdjacent may return for two pieces with the boundaries
\* ptsA and ptsB, over all outcomes of the sampling.
FlagsOf(ptsA, ptsB, tau) ==
  {SampledFlag(sA, sB, tau) : sA \in Samples(ptsA), sB \in Samples(ptsB)}

\* The flags testAdjacent(index_A, index_B, tauAdj) may return on Board b.
TestOutcomes(b, index_A, index_B, tau) ==
  FlagsOf(BoardPts(Items(b)[index_A + 1]), BoardPts(Items(b)[index_B + 1]),
          tau)

\* Python's str() of the flag returned
FlagStr(flag) == IF flag THEN "True" ELSE "False"

\* board.testAdjacent(index_A, index_B, tauAdj) with indices of the Board
TestAdjacent(b, index_A, index_B, tau) ==
  /\ index_A \in 0..(Size(b) - 1)
  /\ index_B \in 0..(Size(b) - 1)
  /\ \E theFlag \in TestOutcomes(b, index_A, index_B, tau) :
       last' = CallSel("testAdjacent", b, tau, FlagStr(theFlag),
                       <<index_A, index_B>>)
  /\ UNCHANGED boardVars

\* ------------------------------------------------- the Adjacent builder
\* paramAdj.tauAdj, the default threshold
DefaultTauAdj == 30

\* The thresholds a builder is constructed with: the default and another.
Taus == {DefaultTauAdj, 2}

\* arrangement.__init__(solBoard, theParams): keeps the calibration Board
\* and the parameters as self.solution and self.params.
ArrangementInit(b, tau) == [solution |-> b, params |-> [tauAdj |-> tau]]

\* np.eye(n).astype('bool'), rows and columns 0 .. n-1
Eye(n) == [i \in 0..(n - 1) |-> [j \in 0..(n - 1) |-> i = j]]

\* A faulty inner loop over range(0, n): every ordered pair is tested.
InnerStart_Zero(ii) == 0

\* The first jj of the inner loop: range(ii+1, n)
InnerStart(ii) == ii + 1

\* The pairs (ii, jj) the two loops of __processAdjacency visit, in order.
RECURSIVE LoopPairs(_, _, _)
LoopPairs(ii, jj, n) ==
  IF ii >= n THEN <<>>
  ELSE IF jj >= n THEN LoopPairs(ii + 1, InnerStart(ii + 1), n)
  ELSE <<<<ii, jj>>>> \o LoopPairs(ii, jj + 1, n)

\* A faulty __processAdjacency that sets adjMat[ii,jj] only.
SetOne(m, ii, jj) ==
  [i \in DOMAIN m |-> [j \in DOMAIN m[i] |->
     IF i = ii /\ j = jj THEN TRUE ELSE m[i][j]]]

\* self.adjMat[ii,jj] = True; self.adjMat[jj,ii] = True
SetBoth(m, ii, jj) ==
  [i \in DOMAIN m |-> [j \in DOMAIN m[i] |->
     IF (i = ii /\ j = jj) \/ (i = jj /\ j = ii) THEN TRUE ELSE m[i][j]]]

\* __processAdjacency after the first k pairs: flag[k] is what the k-th
\* call of testAdjacent returned.
RECURSIVE ProcessAdjacency(_, _, _, _)
ProcessAdjacency(m, visit, flag, k) ==
  IF k = 0 THEN m
  ELSE LET done == ProcessAdjacency(m, visit, flag, k - 1)
       IN  IF flag[k] THEN SetBoth(done, visit[k][1], visit[k][2]) ELSE done

\* The threshold __processAdjacency hands to testAdjacent:
\* self.params.tauAdj
TestTau(arr) == arr.params.tauAdj

\* adjacent(solBoard, theParams) on a Board.  testAdjacent samples the
\* contours at random: flag[k] is one of the flags the k-th call may return.
\* tests records the calls made: the two indices, the threshold and the flag
\* returned.
AdjacentInit(b, tau) ==
  LET arr == ArrangementInit(b, tau)
      n == Size(arr.solution)
      visit == LoopPairs(0, InnerStart(0), n)
  IN
  \E flag \in [1..Len(visit) -> BOOLEAN] :
    /\ \A k \in 1..Len(visit) :
         flag[k] \in TestOutcomes(b, visit[k][1], visit[k][2], TestTau(arr))
    /\ adj' = [built |-> TRUE,
               solution |-> arr.solution,
               tauAdj |-> arr.params.tauAdj,
               adjMat |-> ProcessAdjacency(Eye(Size(b)), visit, flag, Len(visit)),
               tests |-> [k \in 1..Len(visit) |->
                            [a |-> visit[k][1], b |-> visit[k][2],
                             tau |-> TestTau(arr), flag |-> flag[k]]]]
    /\ last' = Call("adjacent", b, tau, "ok")
    /\ UNCHANGED <<boardVars, fileVars, planVars, agentVars, parseVars>>

\* ------------------------------------------ the persisted calibration
\* The calibrated Board as it is written to a file: each piece's template
\* and location, by value.
Snapshot(b) ==
  [k \in 1..Size(b) |-> [y |-> Items(b)[k], rLoc |-> rLoc[Items(b)[k]]]]

\* Saving the builder: the persisted record carries the calibrated Board
\* and, optionally, the threshold as the field tauAdj.
Save(hasTau) ==
  /\ adj.built
  /\ file' = [saved |-> TRUE,
              pieces |-> Snapshot(adj.solution),
              hasTau |-> hasTau,
              tauAdj |-> IF hasTau THEN adj.tauAdj ELSE 0,
              adjMat |-> adj.adjMat]
  /\ last' = Call("save", adj.solution, 0, "ok")
  /\ UNCHANGED <<boardVars, adj, loaded, planVars, agentVars, parseVars>>

\* arrangement.buildFromFile_Puzzle(fileName): an arrangement whose solution
\* is the Board read from the file.
ArrangementFromFile(rec) == [solution |-> rec.pieces]

\* A faulty choice of the parameters: the caller's theParams win over the
\* record's field.
LoadParams_CallerFirst(rec, theParams) ==
  IF theParams # None THEN theParams
  ELSE IF rec.hasTau THEN rec.tauAdj ELSE DefaultTauAdj

\* The tauAdj of the parameters the builder is constructed with:
\* paramAdj(tauAdj = data.tauAdj) if the record has the field, else theParams
\* if it has a tauAdj, else the default paramAdj.  theParams = None stands
\* for no parameters or parameters without a tauAdj.
LoadParams(rec, theParams) ==
  IF rec.hasTau THEN rec.tauAdj
  ELSE IF theParams # None THEN theParams ELSE DefaultTauAdj

\* adjacent.buildFromFile_Puzzle(fileName, theParams): adjacent.__init__ on
\* the Board read from the file, whose __processAdjacency samples the
\* contours anew.
BuildFromFile_Puzzle(theParams) ==
  /\ file.saved
  /\ LET aPuzzle == ArrangementFromFile(file)
         tau == LoadParams(file, theParams)
         sol == aPuzzle.solution
         n == Len(sol)
         visit == LoopPairs(0, InnerStart(0), n)
         Pts(k) == PtsAt(sol[k + 1].y, sol[k + 1].rLoc)
     IN
     \E flag \in [1..Len(visit) -> BOOLEAN] :
       /\ \A k \in 1..Len(visit) :
            flag[k] \in FlagsOf(Pts(visit[k][1]), Pts(visit[k][2]), tau)
       /\ loaded' = [built |-> TRUE,
                     pieces |-> sol,
                     tauAdj |-> tau,
                     adjMat |-> ProcessAdjacency(Eye(n), visit, flag,
                                                 Len(visit))]
  /\ last' = Call("buildFromFile_Puzzle", 0, theParams, "ok")
  /\ UNCHANGED <<boardVars, adj, file, planVars, agentVars, parseVars>>

\* ------------------------------------------------------- the matchers
\* A faulty base matcher that returns the sentinel NaN.
Unimplemented_NaN == "NaN"

\* raise NotImplementedError
Unimplemented == "NotImplementedError"

\* float("NaN"), the default tau of the base matcher
FNaN == "nan"

\* The thresholds a base matcher is constructed with, as Python prints them
MatcherTaus == {FNaN, "inf", "5.0"}

\* matcher.score(yA, yB) and matcher.compare(yA, yB) of a base matcher
\* constructed with tau
MatcherScore(tau, yA, yB) ==
  /\ last' = CallSel("matcher.score", 0, 0, Unimplemented, <<tau, yA, yB>>)
  /\ UNCHANGED <<boardVars, adj, fileVars, planVars, agentVars, parseVars>>

MatcherCompare(tau, yA, yB) ==
  /\ last' = CallSel("matcher.compare", 0, 0, Unimplemented, <<tau, yA, yB>>)
  /\ UNCHANGED <<boardVars, adj, fileVars, planVars, agentVars, parseVars>>

\* ---- the edge matcher
\* tau_shape and tau_color of edge.__init__
DefaultTauShape == 100
DefaultTauColor == 400

\* The colour thresholds an edge matcher is constructed with
TauColors == {DefaultTauColor, 5}

\* The edges of a piece: 1..4.  An edge has a type and a colour profile; the
\* profile of an edge is of one colour (c, 0, 0) throughout.
EdgeTypes == {1, 2}
EdgeColors == {0, 5}

\* The pieces handed to the edge matcher: instances of regular, whose edges
\* are described, and of another class.
RegularPieces(colors) ==
  {[kind |-> "regular", type |-> t, color |-> c] :
     t \in [1..4 -> EdgeTypes], c \in [1..4 -> colors]}
OtherPieces == {[kind |-> k, type |-> <<>>, color |-> <<>>] : k \in {"template"}}

\* dis_shape with method = 'type'
DisShape(tA, tB) == IF tA = tB THEN Fin(0) ELSE FInf

\* dis_color: the mean over the profile of the Euclidean distance between
\* the colours (cA, 0, 0) and (cB, 0, 0)
DisColor(cA, cB) == Fin(IF cA >= cB THEN cA - cB ELSE cB - cA)

\* edge.score(piece_A, piece_B): the 4 shape and the 4 colour distances, or
\* a TypeError
EdgeScore(A, B) ==
  IF A.kind # B.kind THEN [outcome |-> "TypeError"]
  ELSE IF A.kind = "regular"
  THEN [outcome |-> "ok",
        distance_shape |-> [i \in 1..4 |-> DisShape(A.type[i], B.type[i])],
        distance_color |-> [i \in 1..4 |-> DisColor(A.color[i], B.color[i])]]
  ELSE [outcome |-> "TypeError"]

\* a distance < a threshold, as numpy compares floats
FLess(d, tau) == ~d.inf /\ d.v < tau

\* A faulty gate: some distance below the threshold suffices.
AllBelow_Any(dist, tau) == \E i \in DOMAIN dist : FLess(dist[i], tau)

\* (np.array(distance) < tau).all()
AllBelow(dist, tau) == \A i \in DOMAIN dist : FLess(dist[i], tau)

\* edge.compare(piece_A, piece_B) of an edge matcher with the thresholds
\* tau_shape and tau_color
EdgeCompareResult(A, B, tau_shape, tau_color) ==
  LET sc == EdgeScore(A, B) IN
  IF sc.outcome # "ok" THEN sc.outcome
  ELSE IF AllBelow(sc.distance_shape, tau_shape)
          /\ AllBelow(sc.distance_color, tau_color)
       THEN "True" ELSE "False"

EdgeCompare(A, B, tau_shape, tau_color) ==
  /\ last' = CallSel("edge.compare", 0, 0,
                     EdgeCompareResult(A, B, tau_shape, tau_color),
                     <<A, B, tau_shape, tau_color>>)
  /\ UNCHANGED <<boardVars, adj, fileVars, planVars, agentVars, parseVars>>

\* ---- the moments matcher
\* The shapes handed to the moments matcher.  Shapes 1 and 7 have the same
\* Hu moments.
Shapes == {1, 2, 7}

\* cv2.HuMoments(cv2.moments(y.contour)): the 7 Hu moments of shape y, each
\* given by its sign and by exp, the value of log10(1e-06 + abs(h)).
HuMoments(y) ==
  [i \in 1..7 |-> [sign |-> IF (i + y) % 2 = 0 THEN 1 ELSE -1,
                   exp |-> -3 * ((i * y) % 3)]]

\* moments.process(y):
\* -1 * math.copysign(1.0, h) * math.log10(1e-06 + abs(h)) of each moment
MomentsProcess(y) ==
  [i \in 1..7 |-> -1 * HuMoments(y)[i].sign * HuMoments(y)[i].exp]

\* A faulty distance that sums the differences without np.abs.
Abs_Dropped(x) == x

\* np.abs
Abs(x) == IF x >= 0 THEN x ELSE -x

\* np.sum(np.abs(huMoments_B - huMoments_A)) over the first k components
RECURSIVE SumAbsDiff(_, _, _)
SumAbsDiff(hA, hB, k) ==
  IF k = 0 THEN 0 ELSE SumAbsDiff(hA, hB, k - 1) + Abs(hB[k] - hA[k])

\* moments.score(yM) of a moments matcher that holds self.y
MomentsDistance(y, yM) == SumAbsDiff(MomentsProcess(y), MomentsProcess(yM), 7)

MomentsScore(y, yM) ==
  /\ last' = CallSel("moments.score", 0, MomentsDistance(y, yM), "ok",
                     <<y, yM>>)
  /\ UNCHANGED <<boardVars, adj, fileVars, planVars, agentVars, parseVars>>

\* ------------------------------------------------------- the Manager
\* The scores a Matcher gives to a pair of pieces, and the Matcher's
\* threshold: a score that exceeds it makes the pair unmatchable.
ScoreVals == {0, 1, 3}
MatchTau == 1

\* The M x N score matrices of M measured and N calibration pieces
ScoreMatrices(M, N) == [1..M -> [1..N -> ScoreVals]]

\* The pairs <<m, s>> that may still be matched: neither the measured piece
\* m nor the calibration piece s is taken, and the score is acceptable.
Candidates(scores, usedM, usedS) ==
  {pr \in (DOMAIN scores \ usedM) \X
          ((IF scores = <<>> THEN {} ELSE DOMAIN scores[1]) \ usedS) :
     scores[pr[1]][pr[2]] <= MatchTau}

\* The best candidate: the lowest score, then the lowest measured index,
\* then the lowest solution index.
Best(scores, cand) ==
  CHOOSE pr \in cand : \A qr \in cand :
    \/ scores[pr[1]][pr[2]] < scores[qr[1]][qr[2]]
    \/ /\ scores[pr[1]][pr[2]] = scores[qr[1]][qr[2]]
       /\ \/ pr[1] < qr[1]
          \/ pr[1] = qr[1] /\ pr[2] <= qr[2]

\* A faulty assignment that never marks a calibration piece as taken.
TakenSolutions_Forgotten(usedS, s) == usedS

\* The calibration pieces taken once s has been assigned
TakenSolutions(usedS, s) == usedS \cup {s}

\* The assignment: the best candidate is matched until none is left.  A
\* tuple is <<measured index, solution index>>, both counted from 0.
RECURSIVE Assign(_, _, _)
Assign(scores, usedM, usedS) ==
  LET cand == Candidates(scores, usedM, usedS) IN
  IF cand = {} THEN <<>>
  ELSE LET pr == Best(scores, cand) IN
       <<<<pr[1] - 1, pr[2] - 1>>>> \o
         Assign(scores, usedM \cup {pr[1]}, TakenSolutions(usedS, pr[2]))

\* manager.process(meaBoard): the Matcher's scores of the measured against
\* the calibration pieces are kept in manager.scores.
ManagerProcessed(mg) ==
  [mg EXCEPT !.pAssignments = Assign(mg.scores, {}, {})]

\* -------------------------------------------------------- the Solver
\* The tolerances: tauDist on the position, AngleTol on the orientation.
TauDist == 100
AngleTol == 1

\* The calibrated solution the Solver is constructed with: two pieces in
\* their place, not rotated.
DesiredBoard ==
  <<[rLoc |-> <<0, 0>>, theta |-> 0], [rLoc |-> <<500, 0>>, theta |-> 0]>>

\* The places and orientations a measured piece is found in: tauDist away
\* from the first place of the solution, or at the second place.
MeasuredLocs == {<<100, 0>>, <<500, 0>>}
MeasuredThetas == {0, 90}
MeasuredBoards ==
  UNION {[1..M -> [rLoc : MeasuredLocs, theta : MeasuredThetas]] :
           M \in 1..MaxMeasured}

\* The errors of the k-th matched pair
PairMeasured(sv, k) == sv.current[sv.match[k][1] + 1]
PairDesired(sv, k) == sv.desired[sv.match[k][2] + 1]
NeedsRotate(sv, k) ==
  Abs(PairMeasured(sv, k).theta - PairDesired(sv, k).theta) > AngleTol
NeedsMove(sv, k) ==
  Dist2(PairMeasured(sv, k).rLoc, PairDesired(sv, k).rLoc) > TauDist * TauDist
Outstanding(sv) ==
  {k \in 1..Len(sv.match) : NeedsRotate(sv, k) \/ NeedsMove(sv, k)}

\* NO_MATCH, ACTIVE or SOLVED
SolverState(sv) ==
  IF sv.match = <<>> THEN "NO_MATCH"
  ELSE IF Outstanding(sv) # {} THEN "ACTIVE" ELSE "SOLVED"

\* The pair takeTurn selects: the first outstanding pair, in the order of
\* the assignment (defaultPlan = 'order')
Selected(sv) == CHOOSE k \in Outstanding(sv) : \A l \in Outstanding(sv) : k <= l

\* A faulty rotation that leaves the piece as it is.
RotatedTheta_Unchanged(theta, target) == theta

\* The orientation of a piece after the rotate-to-orientation action
RotatedTheta(theta, target) == target

\* A faulty turn that moves a piece it has just rotated.
MoveToo_Always(sv, k) == NeedsMove(sv, k)

\* A turn corrects one degree of freedom: a piece that is rotated is not
\* moved in the same turn.
MoveToo(sv, k) == FALSE

\* solver.takeTurn(): the Solver after the call.  plan is what the call
\* reports: the action emitted, or None when nothing is outstanding.
TakeTurnResult(sv) ==
  IF SolverState(sv) # "ACTIVE" THEN [sv EXCEPT !.plan = NoPlan]
  ELSE LET k == Selected(sv)
           m == sv.match[k][1] + 1
           target == PairDesired(sv, k)
       IN
       IF NeedsRotate(sv, k)
       THEN [sv EXCEPT !.current[m].theta = RotatedTheta(@, target.theta),
                       !.current[m].rLoc =
                          IF MoveToo(sv, k) THEN target.rLoc ELSE @,
                       !.plan = [type |-> "rotate", piece |-> m - 1, index |-> k],
                       !.turns = @ + 1]
       ELSE [sv EXCEPT !.current[m].rLoc = target.rLoc,
                       !.plan = [type |-> "move", piece |-> m - 1, index |-> k],
                       !.turns = @ + 1]

\* What a call of takeTurn reports to a driver
Report(plan) == IF plan.type = "None" THEN "finished" ELSE plan.type

\* Simple(solution, measured) and Manager(solution): a Solver on a measured
\* Board and a Manager whose Matcher scores the pieces of that Board.
SolverInit(meaBoard, scores) ==
  /\ solver.current = <<>>
  /\ solver' = [NoSolver EXCEPT !.current = meaBoard, !.desired = DesiredBoard]
  /\ manager' = [NoManager EXCEPT !.scores = scores]
  /\ last' = Call("solver", 0, Len(meaBoard), "ok")
  /\ UNCHANGED <<boardVars, adj, fileVars, agentVars, parseVars>>

ManagerProcess ==
  /\ solver.current # <<>>
  /\ manager' = ManagerProcessed(manager)
  /\ last' = Call("manager.process", 0, 0, "ok")
  /\ UNCHANGED <<boardVars, adj, fileVars, solver, agentVars, parseVars>>

\* solver.setMatch(manager.pAssignments)
SetMatch ==
  /\ solver.current # <<>>
  /\ solver' = [solver EXCEPT !.match = manager.pAssignments]
  /\ last' = Call("setMatch", 0, 0, "ok")
  /\ UNCHANGED <<boardVars, adj, fileVars, manager, agentVars, parseVars>>

TakeTurn ==
  /\ solver.current # <<>>
  /\ solver' = TakeTurnResult(solver)
  /\ last' = Call("takeTurn", 0, 0, Report(solver'.plan))
  /\ UNCHANGED <<boardVars, adj, fileVars, manager, agentVars, parseVars>>

\* ------------------------------------------------------- the Planner
\* A faulty Planner that plans whatever flag the Solver returns.
NoPlanFound_Never(flag) == FALSE

\* if not flag
NoPlanFound(flag) == ~flag

\* self.plan(puzzle_idx, target_loc): plan takes one argument, solver_out.
PlanOutcome == "TypeError"

\* Planner_Base(solver, manager) and setSolBoard(solBoard): the Solver and
\* the Manager refer to the calibrated solution, no measurement yet.
PlannerInit ==
  /\ last.op = "init"
  /\ solver' = [NoSolver EXCEPT !.desired = DesiredBoard]
  /\ manager' = NoManager
  /\ last' = Call("planner", 0, 0, "ok")
  /\ UNCHANGED <<boardVars, adj, fileVars, agentVars, parseVars>>

\* self.manager.process(meaBoard): the Board the Manager is run on
Managed(meaBoard) == meaBoard

\* self.solver.current = meaBoard
CurrentFor(sv, meaBoard) == meaBoard

\* A faulty process that leaves the Solver with the match it already has.
MatchFor_Stale(sv, pAssignments) == sv.match

\* self.solver.setMatch(self.manager.pAssignments)
MatchFor(sv, pAssignments) == pAssignments

\* One run of the body of Planner_Base.process(meaBoard) by a Manager mg
\* and a Solver sv; scores are the Matcher's scores of the pieces of
\* meaBoard against the calibration pieces.  managed, current and match are
\* the Board the Manager was run on and the Board and the assignment the
\* Solver held when takeTurn began; ret is the tuple returned (none when
\* the call is left by an exception).
PlannerPass(mg, sv, meaBoard, scores) ==
  LET mg1 == ManagerProcessed([mg EXCEPT !.scores = scores])
      sv1 == [sv EXCEPT !.current = CurrentFor(sv, meaBoard),
                        !.match = MatchFor(sv, mg1.pAssignments)]
      sv2 == TakeTurnResult(sv1)
      flag == sv2.plan.type # "None"
  IN  [manager |-> mg1, solver |-> sv2,
       managed |-> Managed(meaBoard), current |-> sv1.current,
       match |-> sv1.match,
       outcome |-> IF NoPlanFound(flag) THEN "ok" ELSE PlanOutcome,
       ret |-> IF NoPlanFound(flag) THEN <<FlagStr(flag), "None", "None">>
               ELSE <<>>]

\* The record of a pass, as far as history keeps it
FrameOf(pass, meaBoard, scores) ==
  [meaBoard |-> meaBoard, scores |-> scores, managed |-> pass.managed,
   current |-> pass.current, match |-> pass.match]

\* planner.process(meaBoard) on the Board of a new frame
PlannerProcessOn(meaBoard, scores) ==
  LET pass == PlannerPass(manager, solver, meaBoard, scores) IN
  /\ solver.desired # <<>>
  /\ manager' = pass.manager
  /\ solver' = pass.solver
  /\ frame' = FrameOf(pass, meaBoard, scores)
  /\ last' = CallSel("planner.process", 0, 0, pass.outcome, pass.ret)
  /\ UNCHANGED <<boardVars, adj, fileVars, agent, parseVars>>

\* Planner_Base.process(meaBoard), meaBoard being the Board the Solver
\* holds and the Matcher scoring its pieces as before.
PlannerProcess ==
  /\ solver.current # <<>>
  /\ manager' = ManagerProcessed(manager)
  /\ LET sv == [solver EXCEPT !.match = manager'.pAssignments]
         flag == TakeTurnResult(sv).plan.type # "None"
     IN  /\ solver' = TakeTurnResult(sv)
         /\ last' = IF NoPlanFound(flag)
                    THEN CallSel("planner.process", 0, 0, "ok",
                                 <<FlagStr(flag), "None", "None">>)
                    ELSE Call("planner.process", 0, 0, PlanOutcome)
  /\ UNCHANGED <<boardVars, adj, fileVars, agentVars, parseVars>>

\* -------------------------------------------------------- the Agent
\* if self.cache_actions is None
NoCache(cache_actions) == cache_actions = <<>>

\* Agent.process(meaBoard), the planner being set: when nothing is cached
\* the planner is run and its result cached; then the planner is run, and
\* its result cached, whatever the cache holds.  An exception of the
\* planner leaves the call at once.
AgentProcess(meaBoard, scores) ==
  LET first == PlannerPass(manager, solver, meaBoard, scores)
      again == PlannerPass(first.manager, first.solver, meaBoard, scores)
      twice == NoCache(agent.cache_actions) /\ first.outcome = "ok"
      pass == IF twice THEN again ELSE first
      runs == IF twice THEN 2 ELSE 1
  IN
  /\ solver.desired # <<>>
  /\ manager' = pass.manager
  /\ solver' = pass.solver
  /\ frame' = FrameOf(pass, meaBoard, scores)
  /\ agent' = [cache_actions |-> IF pass.outcome = "ok" THEN pass.ret
                                 ELSE IF twice THEN first.ret
                                 ELSE agent.cache_actions,
               managerRuns |-> runs, turnRuns |-> runs]
  /\ last' = Call("agent.process", 0, 0, pass.outcome)
  /\ UNCHANGED <<boardVars, adj, fileVars, parseVars>>

\* ------------------------------------------------- the fromLayer parser
\* paramPuzzle.areaThreshold, and the length above which a contour of small
\* area is taken to be discontinuous and is redrawn
AreaThreshold == 20
ArcLimit == 1000

\* cv2.boundingRect(c) of the contours met: rectangles <<x, y, w, h>> of one
\* size next to each other, and one apart from them.
Rects == {<<x, 0, 6, 5>> : x \in {0, 1, 2, 20}}
Apart == <<20, 0, 6, 5>>

\* A contour as cv2 describes it: its bounding rectangle, cv2.contourArea,
\* cv2.arcLength, its parent in the hierarchy (-1: none) and, for a contour
\* that is redrawn, the contours cv2.findContours finds in the redrawn mask.
Cnt(rect, area, arc, redrawn) ==
  [rect |-> rect, area |-> area, arc |-> arc, parent |-> -1,
   redrawn |-> redrawn]

\* The contours of pieces: large enough, too small, or too small and long
\* (redrawn, it is found as one contour that is large enough).
PieceContours ==
  {Cnt(r, 30, 22, <<>>) : r \in Rects}
    \cup {Cnt(Apart, 10, 22, <<>>),
          Cnt(Apart, 10, 1200, <<Cnt(Apart, 30, 22, <<>>)>>)}

\* The contour around the whole mask, the parent of the contours in it
Border == Cnt(<<0, 0, 40, 40>>, 1500, 160, <<>>)

\* What cv2.findContours(mask, RETR_TREE, CHAIN_APPROX_SIMPLE) returns: the
\* contours cs, inside a border contour or not; positions count from 0
WithBorder(cs) ==
  <<Border>> \o [k \in 1..Len(cs) |-> [cs[k] EXCEPT !.parent = 0]]
FoundContours ==
  LET lists == UNION {[1..n -> PieceContours] : n \in 0..MaxContours}
  IN  lists \cup {WithBorder(cs) : cs \in lists}

\* np.count_nonzero(hierarchy[:, 3] == i)
Children(cnts, i) == Cardinality({k \in 1..Len(cnts) : cnts[k].parent = i})

\* hierarchy[i][3] == -1 and np.count_nonzero(hierarchy[:, 3] == i) >= 2
Outermost(cnts, k) == cnts[k].parent = -1 /\ Children(cnts, k - 1) >= 2

\* A sequence without the elements that fail a test, in order
RECURSIVE KeepThose(_, _, _)
KeepThose(cnts, keep, k) ==
  IF k = 0 THEN <<>>
  ELSE KeepThose(cnts, keep, k - 1) \o (IF k \in keep THEN <<cnts[k]>> ELSE <<>>)

\* The result of findCorrectedContours: None, or a list of contours
NoContours == [none |-> TRUE, list |-> <<>>]
ContourList(list) == [none |-> FALSE, list |-> list]

\* fromLayer.findCorrectedContours(mask), cnts being what cv2.findContours
\* returns on the mask: None when there is no contour; else the contours
\* that are not outermost, each kept when its area exceeds the threshold,
\* and replaced by the contours of its redrawn mask when it is long.
RECURSIVE FindCorrectedContours(_)
RECURSIVE DesiredCnts(_, _)
DesiredCnts(cnts, k) ==
  IF k = 0 THEN <<>>
  ELSE LET c == cnts[k] IN
       DesiredCnts(cnts, k - 1) \o
         (IF c.area > AreaThreshold THEN <<c>>
          ELSE IF c.arc > ArcLimit
                 THEN FindCorrectedContours(c.redrawn).list
                 ELSE <<>>)
FindCorrectedContours(cnts) ==
  IF Len(cnts) = 0 THEN NoContours
  ELSE LET keep == {k \in 1..Len(cnts) : ~Outermost(cnts, k)}
           kept == KeepThose(cnts, keep, Len(cnts))
       IN  ContourList(DesiredCnts(kept, Len(kept)))

\* [x, y, x + w, y + h] of x, y, w, h = cv2.boundingRect(c)
BoxOf(rect) == <<rect[1], rect[2], rect[1] + rect[3], rect[2] + rect[4]>>

\* bb_intersection_over_union(boxA, boxB) > 0.5: the area the boxes share is
\* more than half of the area they cover together
BoxArea(b) == (b[3] - b[1]) * (b[4] - b[2])
Inter(a, b) ==
  Max(0, Min(a[3], b[3]) - Max(a[1], b[1])) *
    Max(0, Min(a[4], b[4]) - Max(a[2], b[2]))
IoUAboveHalf(a, b) ==
  2 * Inter(a, b) > BoxArea(a) + BoxArea(b) - Inter(a, b)

\* A faulty check that skips no region.
SkipFlag_Never(regions, box) == FALSE

\* skipflag: the box overlaps a region accepted before
SkipFlag(regions, box) ==
  \E i \in 1..Len(regions) : IoUAboveHalf(regions[i].box, box)

\* A region: the location [x, y] and the box; the mask and the image patch
\* are y:y+h, x:x+w of the frame, of size <<w, h>>
Region(rect) ==
  [loc |-> <<rect[1], rect[2]>>, size |-> <<rect[3], rect[4]>>,
   box |-> BoxOf(rect)]

\* The loop of mask2regions over the first k of the desired contours
RECURSIVE RegionsLoop(_, _)
RegionsLoop(desired_cnts, k) ==
  IF k = 0 THEN <<>>
  ELSE LET regions == RegionsLoop(desired_cnts, k - 1)
           rect == desired_cnts[k].rect
       IN  IF SkipFlag(regions, BoxOf(rect)) THEN regions
           ELSE Append(regions, Region(rect))

\* fromLayer.mask2regions: desired_cnts is None when the mask holds no
\* contour, and `for c in desired_cnts` raises TypeError
Mask2RegionsOutcome(found) == IF found.none THEN "TypeError" ELSE "ok"
Mask2Regions(found) == RegionsLoop(found.list, Len(found.list))

\* fromLayer.regions2pieces: template.buildFromMaskAndImage makes a new
\* Piece of every region: no id yet, rLoc and size those of the region;
\* born is history: the measure call that made the instance
Regions2Pieces(regions, n) ==
  [k \in 1..Len(regions) |->
     [id |-> NoId, rLoc |-> regions[k].loc, size |-> regions[k].size,
      born |-> n]]

\* board.clear() and board.addPiece(piece) on a Board held by value
Cleared(bd) == [pieces |-> <<>>, id_count |-> ClearedCount]
Added(bd, piece) ==
  [pieces |-> Append(bd.pieces, [piece EXCEPT !.id = bd.id_count]),
   id_count |-> NextIdCount(bd.id_count)]
RECURSIVE AddedAll(_, _, _)
AddedAll(bd, newPieces, k) ==
  IF k = 0 THEN bd ELSE Added(AddedAll(bd, newPieces, k - 1), newPieces[k])

\* self.tpt: the locations pieceLocations() yields, one for each id
RECURSIVE LocationsOf(_, _)
LocationsOf(ps, k) ==
  IF k = 0 THEN [x \in {} |-> <<0, 0>>]
  ELSE DictPut(LocationsOf(ps, k - 1), ps[k].id, ps[k].rLoc)
Tpt(bd) ==
  LET pLocs == LocationsOf(bd.pieces, Len(bd.pieces))
  IN  [k \in 1..Cardinality(DOMAIN pLocs) |-> pLocs[k - 1]]

\* fromLayer.measure(I, M), cnts being the contours cv2 finds in M
Measure(cnts) ==
  LET found == FindCorrectedContours(cnts)
      regions == Mask2Regions(found)
      n == parser.frames + 1
      bMeas == AddedAll(Cleared(parser.bMeas), Regions2Pieces(regions, n),
                        Len(regions))
  IN
  /\ IF Mask2RegionsOutcome(found) = "ok"
       THEN /\ parser' =
                 IF Len(bMeas.pieces) = 0
                   THEN [parser EXCEPT !.bMeas = bMeas, !.haveMeas = FALSE,
                                        !.frames = n]
                   ELSE [bMeas |-> bMeas, haveMeas |-> TRUE,
                         tpt |-> Tpt(bMeas), frames |-> n]
            /\ last' = CallSel("measure", 0, n, "ok", <<found.list, regions>>)
       ELSE /\ parser' = [parser EXCEPT !.frames = n]
            /\ last' = CallSel("measure", 0, n, Mask2RegionsOutcome(found),
                               <<<<>>, <<>>>>)
  /\ UNCHANGED <<boardVars, adj, fileVars, planVars, agentVars, tstate>>

\* tstate = self.bMeas: the Board object itself is returned
BoardAt(ref) == IF ref = "bMeas" THEN parser.bMeas ELSE EmptyBoard

\* fromLayer.getState()
GetState ==
  /\ tstate' = [ref |-> "bMeas", seen |-> parser.bMeas]
  /\ last' = Call("getState", 0, parser.frames, "ok")
  /\ UNCHANGED <<boardVars, adj, fileVars, planVars, agentVars, parser>>

\* --------------------------------------------------- the specifications
\* Boards under addPiece, rmPiece, clear and board(board).
Next ==
  /\ \/ \E b \in Boards, p \in Pieces : AddPiece(b, p)
     \/ \E b \in Boards, id \in 0..MaxCount : RmPiece(b, id)
     \/ \E b \in Boards : Clear(b)
     \/ \E b, src \in Boards : BoardFromBoard(b, src)
  /\ UNCHANGED <<adj, fileVars, planVars, agentVars, parseVars>>

Spec == Init /\ [][Next]_vars

\* Boards under addPiece, rmPiece, getSubset and getAssigned.
NextSubset ==
  /\ \/ \E b \in Boards, p \in Pieces : AddPiece(b, p)
     \/ \E b \in Boards, id \in 0..MaxCount : RmPiece(b, id)
     \/ \E b, src \in Boards : \E subset \in IndexLists(Size(src)) :
          GetSubset(b, src, subset)
     \/ \E b, src \in Boards : \E a \in Assignments(Size(src)) :
          GetAssigned(b, src, a)
  /\ UNCHANGED <<adj, fileVars, planVars, agentVars, parseVars>>

SpecSubset == Init /\ [][NextSubset]_vars

\* Boards under addPiece, getSubset and getAssigned.
NextSelect ==
  /\ \/ \E b \in Boards, p \in Pieces : AddPiece(b, p)
     \/ \E b, src \in Boards : \E subset \in IndexLists(Size(src)) :
          GetSubset(b, src, subset)
     \/ \E b, src \in Boards : \E a \in Assignments(Size(src)) :
          GetAssigned(b, src, a)
  /\ UNCHANGED <<adj, fileVars, planVars, agentVars, parseVars>>

SpecSelect == Init /\ [][NextSelect]_vars

\* Boards whose pieces are placed and whose bounding box is asked for.
NextBox ==
  /\ Running
  /\ \/ \E b \in Boards, p \in Pieces : AddPiece(b, p)
     \/ \E p \in Pieces, r \in Coords \X Coords, c \in BOOLEAN :
          SetPlacement(p, r, c)
     \/ \E b \in Boards : BoundingBoxCall(b)
     \/ \E b \in Boards : ExtentsCall(b)
  /\ UNCHANGED <<adj, fileVars, planVars, agentVars, parseVars>>

SpecBox == Init /\ [][NextBox]_vars

\* A Board whose pieces are placed and which is drawn, on a canvas of its
\* own or on one handed in.
NextImage ==
  /\ Running
  /\ \/ \E p \in Pieces : AddPiece(1, p)
     \/ \E p \in Pieces, r \in Coords \X Coords : SetPlacement(p, r, FALSE)
     \/ \E theImage \in {NoCanvas} \cup Canvases, ID_DISPLAY \in BOOLEAN :
          ToImage(1, theImage, ID_DISPLAY)
  /\ UNCHANGED <<adj, fileVars, planVars, agentVars, parseVars>>

SpecImage == Init /\ [][NextImage]_vars

\* An Adjacent builder and the later life of its calibration Board, the
\* Board variable CalBoard; a piece is moved to MoveTarget.
CalBoard == 1
MoveTarget == <<1, -2>>

NextAdj ==
  \/ \E tau \in Taus : AdjacentInit(CalBoard, tau)
  \/ /\ \/ \E p \in Pieces : AddPiece(CalBoard, p)
        \/ \E id \in 0..MaxCount : RmPiece(CalBoard, id)
        \/ Clear(CalBoard)
        \/ \E p \in Pieces : SetPlacement(p, MoveTarget, FALSE)
     /\ UNCHANGED <<adj, fileVars, planVars, agentVars, parseVars>>

SpecAdj == Init /\ [][NextAdj]_vars

\* A Board whose pieces are placed and tested for adjacency.
NextTest ==
  /\ \/ \E p \in Pieces : AddPiece(CalBoard, p)
     \/ \E p \in Pieces, r \in Coords \X Coords : SetPlacement(p, r, FALSE)
     \/ \E i, j \in 0..(MaxLen - 1), tau \in Taus :
          TestAdjacent(CalBoard, i, j, tau)
  /\ UNCHANGED <<adj, fileVars, planVars, agentVars, parseVars>>

SpecTest == Init /\ [][NextTest]_vars

\* A calibration Board is filled and its pieces are placed; an Adjacent
\* builder is constructed on it, saved and loaded again.
NextFile ==
  \/ /\ ~adj.built
     /\ \/ \E p \in Pieces : AddPiece(CalBoard, p)
        \/ \E p \in Pieces, r \in Coords \X Coords : SetPlacement(p, r, FALSE)
     /\ UNCHANGED <<adj, fileVars, planVars, agentVars, parseVars>>
  \/ \E tau \in Taus : AdjacentInit(CalBoard, tau)
  \/ \E hasTau \in BOOLEAN : Save(hasTau)
  \/ \E theParams \in {None} \cup Taus : BuildFromFile_Puzzle(theParams)

SpecFile == Init /\ [][NextFile]_vars

\* One call of a matcher, on any of the pieces.
NextMatch ==
  /\ last.op = "init"
  /\ \/ \E tau \in MatcherTaus, yA, yB \in Shapes : MatcherScore(tau, yA, yB)
     \/ \E tau \in MatcherTaus, yA, yB \in Shapes : MatcherCompare(tau, yA, yB)
     \/ \E A \in RegularPieces({0}) \cup OtherPieces,
           B \in RegularPieces(EdgeColors) \cup OtherPieces,
           tc \in TauColors :
          EdgeCompare(A, B, DefaultTauShape, tc)
     \/ \E y, yM \in Shapes : MomentsScore(y, yM)

SpecMatch == Init /\ [][NextMatch]_vars

\* A Solver and a Manager on one measured Board: the Manager, the Solver
\* and the Planner are called in any order.
NextPlan ==
  \/ /\ solver.current = <<>>
     /\ \E meaBoard \in MeasuredBoards :
          \E scores \in ScoreMatrices(Len(meaBoard), Len(DesiredBoard)) :
            SolverInit(meaBoard, scores)
  \/ ManagerProcess
  \/ SetMatch
  \/ TakeTurn
  \/ PlannerProcess

SpecPlan == Init /\ [][NextPlan]_vars

\* The drivers: the Manager processes the measured Board, the Solver is
\* given the match and takes turns until it reports that it has finished.
\* The Matcher finds a pair acceptable or not: every assignment of measured
\* to calibration pieces comes about.
NextSolve ==
  \/ /\ last.op = "init"
     /\ \E meaBoard \in MeasuredBoards :
          \E scores \in [1..Len(meaBoard) ->
                           [1..Len(DesiredBoard) -> ScoreVals \ {0}]] :
            SolverInit(meaBoard, scores)
  \/ last.op = "solver" /\ ManagerProcess
  \/ last.op = "manager.process" /\ SetMatch
  \/ /\ last.op \in {"setMatch", "takeTurn"} /\ last.outcome # "finished"
     /\ TakeTurn

SpecSolve == Init /\ [][NextSolve]_vars /\ WF_vars(NextSolve)

\* The frames a Planner or an Agent is handed: the pieces of the puzzle,
\* each at one of the places, and the Matcher finds each pair acceptable or
\* not.
FrameBoards == [DOMAIN DesiredBoard -> [rLoc : MeasuredLocs, theta : {0}]]
FrameScores == [DOMAIN DesiredBoard -> [DOMAIN DesiredBoard -> ScoreVals \ {0}]]

\* A Planner, alone or as the planner of an Agent, is handed a frame after
\* another.
NextAgent ==
  \/ PlannerInit
  \/ /\ solver.desired # <<>>
     /\ solver.turns < MaxTurns
     /\ \E meaBoard \in FrameBoards, scores \in FrameScores :
          \/ PlannerProcessOn(meaBoard, scores)
          \/ AgentProcess(meaBoard, scores)

SpecAgent == Init /\ [][NextAgent]_vars

\* mask2regions at work: a new parser measures one frame, of any contours.
NextRegions ==
  /\ parser.frames = 0
  /\ \E cnts \in FoundContours : Measure(cnts)

SpecRegions == Init /\ [][NextRegions]_vars

\* The frames of a sequence: no border, and each contour that of a piece in
\* its place, of a piece apart from it, or of a speck.
FramePieces ==
  {Cnt(<<0, 0, 6, 5>>, 30, 22, <<>>), Cnt(Apart, 30, 22, <<>>),
   Cnt(Apart, 10, 22, <<>>)}
FrameMasks ==
  {cnts \in FoundContours : \A k \in 1..Len(cnts) : cnts[k] \in FramePieces}

\* A parser measures a frame after another; its Board is asked for.
NextParse ==
  \/ /\ parser.frames < MaxFrames
     /\ \E cnts \in FrameMasks : Measure(cnts)
  \/ GetState

SpecParse == Init /\ [][NextParse]_vars

\* ================================================================ claims

\* The step is a call of op on Board b.
Called(op, b) == last'.op = op /\ last'.board = b

\* C1: after any sequence of addPiece, rmPiece and clear calls on Boards
\* that may share Piece instances and may be constructed from one another,
\* the ids of the pieces held by each Board are pairwise distinct and
\* non-negative.
C1_IdsUniqueNonNegative ==
  \A b \in Boards :
    /\ \A i \in 1..Size(b) : Ids(b)[i] >= 0
    /\ \A i, j \in 1..Size(b) : i # j => Ids(b)[i] # Ids(b)[j]

\* C2 as claimed: every id addPiece hands out on a Board is greater than
\* every id it handed out before on that Board, over the Board's whole
\* lifetime (rmPiece and clear included), and the call leaves the counter of
\* every other Board alone.
C2_NeverReusedOverLifetime ==
  [][\A b \in Boards : Called("addPiece", b) =>
       /\ pid'[last'.arg] > assigned[b]
       /\ \A c \in Boards \ {b} : id_count'[c] = id_count[c]]_vars

\* C2 as amended: every id addPiece hands out on a Board is greater than
\* every id it handed out since the Board was constructed or last cleared
\* (rmPiece included); clear() sets the counter back to 0, so that the ids
\* start again at 0; the call leaves the counter of every other Board alone.
C2_IncreasingBetweenClears ==
  [][\A b \in Boards :
       /\ Called("addPiece", b) =>
            /\ pid'[last'.arg] > sinceClear[b]
            /\ \A c \in Boards \ {b} : id_count'[c] = id_count[c]
       /\ Called("clear", b) => id_count'[b] = 0
       /\ Called("rmPiece", b) => id_count' = id_count]_vars

\* C2 witness: a Board that had handed out the ids 0 and 1 was cleared and
\* addPiece has just handed out id 0 again, while the other Board has
\* inserted pieces of its own.
C2_Witness ==
  \E b \in Boards :
    /\ last.op = "addPiece" /\ last.board = b /\ last.outcome = "ok"
    /\ assigned[b] = 1 /\ sinceClear[b] = 0 /\ id_count[b] = 1
    /\ \E c \in Boards \ {b} : assigned[c] >= 0 /\ id_count[c] >= 1

\* C3: addPiece(piece) sets piece.id to the counter value held before the
\* call, increases the counter by exactly one and makes the piece the last
\* element: size() grows by exactly one and every piece already on the
\* Board keeps its id, location and position.
C3_AddPieceAppends ==
  [][\A b \in Boards : Called("addPiece", b) =>
       LET p == last'.arg IN
       /\ pid'[p] = id_count[b]
       /\ id_count'[b] = id_count[b] + 1
       /\ Size(b)' = Size(b) + 1
       /\ Items(b)'[Size(b)'] = p
       /\ \A i \in 1..Size(b) :
            /\ Items(b)'[i] = Items(b)[i]
            /\ pid'[Items(b)[i]] = pid[Items(b)[i]]
            /\ rLoc'[Items(b)[i]] = rLoc[Items(b)[i]]]_vars

\* The sequence s without its k-th element.
Without(s, k) == [i \in 1..(Len(s) - 1) |-> IF i < k THEN s[i] ELSE s[i + 1]]

\* C4: rmPiece(id) removes the first piece whose id is the argument,
\* whatever its position (the first position and id 0 included): size()
\* drops by one, the other pieces keep their ids and order; when no piece
\* has that id the pieces and the id counter are left unchanged.
C4_RmPieceRemovesFirstMatch ==
  [][\A b \in Boards : Called("rmPiece", b) =>
       LET id == last'.arg
           hits == {i \in 1..Size(b) : Ids(b)[i] = id}
       IN  /\ pid' = pid
           /\ id_count' = id_count
           /\ IF hits = {}
                THEN Items(b)' = Items(b)
                ELSE LET k == CHOOSE i \in hits : \A j \in hits : i <= j
                     IN  /\ Size(b)' = Size(b) - 1
                         /\ Items(b)' = Without(Items(b), k)]_vars

\* C5: for every non-empty Board reachable through addPiece, rmPiece,
\* getSubset and getAssigned, size() is the number of entries of
\* pieceLocations(), which holds one id -> location entry for each piece.
C5_SizeIsLocationCount ==
  \A b \in Boards : Size(b) > 0 =>
    /\ Size(b) = Cardinality(DOMAIN PieceLocations(b))
    /\ \A i \in 1..Size(b) : PieceLocations(b)[Ids(b)[i]] = rLoc[Items(b)[i]]

\* The index list of the call: for getAssigned the first field of every
\* tuple of the assignment.
IndexListOf(call) ==
  IF call.op = "getAssigned"
    THEN [k \in 1..Len(call.sel) |-> call.sel[k][1]]
    ELSE call.sel

C6_BoxCoversPieces ==
  \A b \in Boards : Size(b) > 0 =>
    LET bbox == BoundingBox(b) IN
    /\ \A i \in 1..Size(b) :
         LET p == Items(b)[i] IN
         /\ bbox[1][1] <= rLoc[p][1]
         /\ bbox[1][2] <= rLoc[p][2]
         /\ bbox[2][1] >= rLoc[p][1] + PieceSize(p)[1]
         /\ bbox[2][2] >= rLoc[p][2] + PieceSize(p)[2]
    /\ Extents(b)[1] = bbox[2][1] - bbox[1][1]
    /\ Extents(b)[2] = bbox[2][2] - bbox[1][2]

\* C6 witness: boundingBox() has returned on a Board of two different
\* pieces at different places, one of them at negative coordinates.
C6_Witness ==
  /\ last.op = "boundingBox" /\ last.outcome = "ok"
  /\ Size(last.board) = 2
  /\ Items(last.board)[1] # Items(last.board)[2]
  /\ rLoc[Items(last.board)[1]][1] < 0 /\ rLoc[Items(last.board)[1]][2] < 0
  /\ rLoc[Items(last.board)[2]][1] > 0

\* The exceptions of class Exception, the errors a caller is handed.
\* SystemExit is none of them: it asks the interpreter to exit, and after
\* exit() without an argument the exit status is 0.
Errors ==
  {"AttributeError", "ValueError", "IndexError", "RuntimeError", "TypeError"}

\* C7: boundingBox() and extents() on a Board with zero pieces fail with an
\* error that propagates to the caller as an error outcome; they never
\* return a box for an empty Board.  (That the Board is left unchanged is
\* part of both calls: they only read it.)
C7_EmptyBoardIsAnError ==
  (last.op \in {"boundingBox", "extents"} /\ Size(last.board) = 0)
    => last.outcome \in Errors

\* The adjacency matrix is n x n over the indices 0 .. n-1.
IsSquare(m, n) ==
  /\ DOMAIN m = 0..(n - 1)
  /\ \A i \in DOMAIN m : DOMAIN m[i] = 0..(n - 1)

\* C9: for every Board of N pieces (N >= 0) and every outcome of the
\* pairwise adjacency tests, the adjMat the Adjacent builder builds is an
\* N x N boolean matrix with a true diagonal and adjMat[i][j] = adjMat[j][i].
C9_AdjMatSymmetric ==
  adj.built =>
    LET m == adj.adjMat IN
    /\ last.op = "adjacent" => IsSquare(m, Size(last.board))
    /\ \A i \in DOMAIN m :
         /\ DOMAIN m[i] = DOMAIN m
         /\ m[i][i] = TRUE
         /\ \A j \in DOMAIN m : m[i][j] \in BOOLEAN /\ m[i][j] = m[j][i]

\* C9 witness: a builder was constructed on a Board of two pieces and the
\* test of the pair returned true.
C9_Witness ==
  /\ last.op = "adjacent" /\ Size(last.board) = 2
  /\ adj.built /\ adj.adjMat[0][1] /\ adj.adjMat[1][0]

\* What C10 says of a builder right after its construction: the tests made
\* are one per unordered pair of pieces, each with the builder's tauAdj,
\* and off the diagonal adjMat holds the flags the tests returned.
BuiltFromTests(a) ==
  LET n == Cardinality(DOMAIN a.adjMat)
      ofPair(i, j) == {k \in DOMAIN a.tests :
                         {a.tests[k].a, a.tests[k].b} = {i, j}}
  IN
  /\ IsSquare(a.adjMat, n)
  /\ \A k \in DOMAIN a.tests :
       /\ a.tests[k].tau = a.tauAdj
       /\ a.tests[k].a \in 0..(n - 1) /\ a.tests[k].b \in 0..(n - 1)
       /\ a.tests[k].a # a.tests[k].b
  /\ \A i, j \in 0..(n - 1) : i # j =>
       /\ Cardinality(ofPair(i, j)) = 1
       /\ \A k \in ofPair(i, j) : a.adjMat[i][j] = a.tests[k].flag

\* C10: the adjacency matrix is a frozen calibration artifact: each
\* unordered pair of pieces is tested exactly once at construction with the
\* builder's tauAdj, adjMat[i][j] for i # j is true iff that test returned
\* true, and no later addPiece, rmPiece, clear or move of a piece of the
\* calibration Board changes an entry or the shape of adjMat.
C10_AdjMatFrozen ==
  [][/\ last'.op = "adjacent" =>
          /\ adj'.built /\ adj'.solution = last'.board
          /\ adj'.tauAdj = last'.arg
          /\ Cardinality(DOMAIN adj'.adjMat) = Size(last'.board)
          /\ BuiltFromTests(adj')
     /\ last'.op # "adjacent" => adj'.adjMat = adj.adjMat]_vars

\* C10 witness: a builder was constructed on two pieces found adjacent with
\* a tauAdj other than the default, and the calibration Board was cleared
\* afterwards: adjMat is still the 2 x 2 matrix of the construction.
C10_Witness ==
  /\ adj.built /\ adj.tauAdj # DefaultTauAdj
  /\ last.op = "clear" /\ last.board = adj.solution
  /\ Size(adj.solution) = 0
  /\ IsSquare(adj.adjMat, 2) /\ adj.adjMat[0][1]
  /\ Len(adj.tests) = 1 /\ adj.tests[1].flag

\* The least squared distance between boundary points of the pieces at the
\* indices i and j of Board b.
ClosestDist2(b, i, j) ==
  LET d == {Dist2(a, c) : a \in BoardPts(Items(b)[i + 1]),
                          c \in BoardPts(Items(b)[j + 1])}
  IN  CHOOSE m \in d : \A x \in d : m <= x

\* C11 as claimed: testAdjacent(i, j, tau) returns True when the closest
\* boundary points of the two pieces are strictly less than tau apart and
\* False when every pair of boundary points is tau or more apart, whatever
\* the sampling picked.
C11_FlagIsTrueDistanceTest ==
  last.op = "testAdjacent" =>
    LET d2 == ClosestDist2(last.board, last.sel[1], last.sel[2]) IN
    last.outcome = FlagStr(d2 < last.arg * last.arg)

\* C11 as amended: testAdjacent(i, j, tau) returns False when every pair of
\* boundary points is tau or more apart, whatever the sampling picked; it
\* returns True only when the closest boundary points are strictly less than
\* tau apart (and then only if the sampling picked such a pair: it may
\* return False otherwise).
C11_TrueOnlyWhenClose ==
  last.op = "testAdjacent" =>
    LET d2 == ClosestDist2(last.board, last.sel[1], last.sel[2]) IN
    /\ last.outcome \in {"True", "False"}
    /\ d2 >= last.arg * last.arg => last.outcome = "False"
    /\ last.outcome = "True" => d2 < last.arg * last.arg

\* C11 witness: two different pieces whose closest boundary points are
\* less than tau = 2 apart while other boundary points are not, and
\* testAdjacent returned True.
C11_Witness ==
  /\ last.op = "testAdjacent" /\ last.outcome = "True" /\ last.arg = 2
  /\ Items(last.board)[last.sel[1] + 1] # Items(last.board)[last.sel[2] + 1]
  /\ ClosestDist2(last.board, last.sel[1], last.sel[2]) = 2
  /\ FALSE \in TestOutcomes(last.board, last.sel[1], last.sel[2], 2)

\* The least squared distance between the boundaries of the pieces k and l
\* of a saved calibration.
SavedDist2(rec, k, l) ==
  LET d == {Dist2(a, c) : a \in PtsAt(rec[k + 1].y, rec[k + 1].rLoc),
                          c \in PtsAt(rec[l + 1].y, rec[l + 1].rLoc)}
  IN  CHOOSE m \in d : \A x \in d : m <= x

\* C12: the builder buildFromFile_Puzzle returns for a saved Adjacent
\* calibration has the same piece count, the same piece positions and an
\* adjacency matrix identical, entry by entry, to the one the saved builder
\* held.
C12_RoundTripIdentical ==
  last.op = "buildFromFile_Puzzle" =>
    /\ Len(loaded.pieces) = Len(file.pieces)
    /\ \A k \in 1..Len(file.pieces) :
         loaded.pieces[k].rLoc = file.pieces[k].rLoc
    /\ loaded.adjMat = file.adjMat

\* C13: buildFromFile_Puzzle builds the adjacency matrix with the tauAdj of
\* the persisted record when the record carries the field, otherwise with
\* the caller's tauAdj if given and otherwise with the default 30; it
\* raises no error when the field is missing.
C13_RecordThresholdFirst ==
  last.op = "buildFromFile_Puzzle" =>
    LET tau == IF file.hasTau THEN file.tauAdj
               ELSE IF last.arg # None THEN last.arg ELSE 30
        n == Len(file.pieces)
    IN
    /\ last.outcome = "ok"
    /\ loaded.built /\ loaded.tauAdj = tau
    /\ \A k, l \in 0..(n - 1) :
         /\ k # l /\ loaded.adjMat[k][l] =>
              SavedDist2(file.pieces, k, l) < tau * tau
         /\ k # l /\ SavedDist2(file.pieces, k, l) >= tau * tau =>
              ~loaded.adjMat[k][l]

\* C13 witness: a record without the field was loaded with the caller's
\* tauAdj = 2, and two pieces that the default threshold would make
\* adjacent are not adjacent in the loaded builder.
C13_Witness ==
  /\ last.op = "buildFromFile_Puzzle" /\ last.arg = 2
  /\ ~file.hasTau /\ file.tauAdj # 2
  /\ Len(file.pieces) = 2
  /\ ~loaded.adjMat[0][1]
  /\ SavedDist2(file.pieces, 0, 1) < DefaultTauAdj * DefaultTauAdj
  /\ SavedDist2(file.pieces, 0, 1) >= 4

\* C13 witness, the other branches: a record that carries tauAdj = 2 was
\* loaded with the caller's tauAdj = 30, and a record without the field was
\* loaded without parameters.
C13_WitnessRecord ==
  /\ last.op = "buildFromFile_Puzzle" /\ last.arg = DefaultTauAdj
  /\ file.hasTau /\ file.tauAdj = 2 /\ loaded.tauAdj = 2
  /\ Len(file.pieces) = 2

C15_ConjunctiveGate ==
  last.op = "edge.compare" =>
    LET sc == EdgeScore(last.sel[1], last.sel[2])
        tau_shape == last.sel[3]
        tau_color == last.sel[4]
        below == /\ \A i \in 1..4 : /\ ~sc.distance_shape[i].inf
                                    /\ sc.distance_shape[i].v < tau_shape
                 /\ \A i \in 1..4 : /\ ~sc.distance_color[i].inf
                                    /\ sc.distance_color[i].v < tau_color
    IN  sc.outcome = "ok" =>
          /\ last.outcome \in {"True", "False"}
          /\ last.outcome = "True" <=> below

\* C15 witness: all 4 shape distances are below tau_shape and 3 colour
\* distances are below tau_color, one colour distance equals tau_color, and
\* compare returned False.
C15_Witness ==
  /\ last.op = "edge.compare" /\ last.outcome = "False"
  /\ LET sc == EdgeScore(last.sel[1], last.sel[2]) IN
     /\ sc.outcome = "ok"
     /\ \A i \in 1..4 : sc.distance_shape[i] = Fin(0)
     /\ Cardinality({i \in 1..4 : sc.distance_color[i].v < last.sel[4]}) = 3
     /\ \E i \in 1..4 : sc.distance_color[i].v = last.sel[4]

\* C16: the moments matcher's score is the L1 distance between the
\* 7-component feature vectors of the two pieces: non-negative, symmetric in
\* the two pieces, and 0 for a piece against itself or against a piece with
\* identical features.
C16_MomentsScoreIsL1 ==
  last.op = "moments.score" =>
    LET y == last.sel[1]
        yM == last.sel[2]
        fA == MomentsProcess(y)
        fB == MomentsProcess(yM)
        D(i) == IF fA[i] >= fB[i] THEN fA[i] - fB[i] ELSE fB[i] - fA[i]
    IN
    /\ DOMAIN fA = 1..7 /\ DOMAIN fB = 1..7
    /\ last.arg = D(1) + D(2) + D(3) + D(4) + D(5) + D(6) + D(7)
    /\ last.arg >= 0
    /\ last.arg = MomentsDistance(yM, y)
    /\ fA = fB => last.arg = 0

\* C16 witness: two different shapes with identical features were scored.
C16_Witness ==
  /\ last.op = "moments.score" /\ last.sel[1] # last.sel[2]
  /\ MomentsProcess(last.sel[1]) = MomentsProcess(last.sel[2])
  /\ last.arg = 0

\* C16 witness: two shapes with different features were scored.
C16_WitnessApart ==
  /\ last.op = "moments.score" /\ last.arg > 0
  /\ \E i \in 1..7 : MomentsProcess(last.sel[1])[i] < MomentsProcess(last.sel[2])[i]
  /\ \E i \in 1..7 : MomentsProcess(last.sel[1])[i] > MomentsProcess(last.sel[2])[i]

\* The assignment a names each measured and each calibration piece at most
\* once, names pairs with an acceptable score only, and leaves out every
\* measured piece that has no acceptable score at all.
InjectiveOn(a, scores) ==
  /\ \A i, j \in 1..Len(a) :
       i # j => a[i][1] # a[j][1] /\ a[i][2] # a[j][2]
  /\ \A i \in 1..Len(a) :
       /\ a[i][1] + 1 \in DOMAIN scores
       /\ a[i][2] + 1 \in DOMAIN scores[a[i][1] + 1]
       /\ scores[a[i][1] + 1][a[i][2] + 1] <= MatchTau
  /\ \A m \in DOMAIN scores :
       (\A c \in DOMAIN scores[m] : scores[m][c] > MatchTau)
         => \A i \in 1..Len(a) : a[i][1] # m - 1

\* C17: every Assignment the Manager produces and the Planner hands to the
\* Solver is injective: no two tuples share a solution piece, no two share
\* a measured piece, and a measured piece without an acceptable match is
\* absent from it.
C17_AssignmentInjective ==
  /\ InjectiveOn(manager.pAssignments, manager.scores)
  /\ InjectiveOn(solver.match, manager.scores)

\* C17 witness: two measured pieces have an acceptable score for the same
\* calibration piece only, and the Planner has handed the Solver an
\* assignment of one tuple.
C17_Witness ==
  /\ last.op = "planner.process"
  /\ Len(solver.current) = 2 /\ Len(solver.match) = 1
  /\ \E c \in 1..2 :
       /\ manager.scores[1][c] <= MatchTau /\ manager.scores[2][c] <= MatchTau
       /\ manager.scores[1][3 - c] > MatchTau
       /\ manager.scores[2][3 - c] > MatchTau

\* The step is a call of takeTurn, by a driver or by the Planner.
TurnTaken == last'.op \in {"takeTurn", "planner.process"}

\* The Solver as takeTurn finds it in that step: the Planner sets the match
\* first.
Before == [solver EXCEPT !.match = solver'.match]

\* C18: a takeTurn call in the ACTIVE state selects exactly one outstanding
\* matched pair and emits exactly one action: a rotate if that piece's
\* orientation error exceeds the tolerance, otherwise a move if its position
\* error does; no call emits both, and no piece is moved while its
\* orientation error exceeds the tolerance.
C18_OneActionPerTurn ==
  [][TurnTaken /\ SolverState(Before) = "ACTIVE" =>
       LET plan == solver'.plan
           k == plan.index
           m == plan.piece + 1
       IN
       /\ solver'.turns = solver.turns + 1
       /\ plan.type \in {"rotate", "move"}
       /\ k \in Outstanding(Before) /\ m = Before.match[k][1] + 1
       /\ plan.type = "rotate" <=> NeedsRotate(Before, k)
       /\ plan.type = "move" => ~NeedsRotate(Before, k) /\ NeedsMove(Before, k)
       /\ plan.type = "rotate" =>
            /\ solver'.current[m].rLoc = solver.current[m].rLoc
            /\ solver'.current[m].theta = PairDesired(Before, k).theta
       /\ plan.type = "move" =>
            /\ solver'.current[m].theta = solver.current[m].theta
            /\ solver'.current[m].rLoc = PairDesired(Before, k).rLoc
       /\ \A o \in DOMAIN solver.current :
            o # m => solver'.current[o] = solver.current[o]]_vars

\* C18 witness: a piece that was both turned and out of place has been
\* rotated, and is still out of place.
C18_Witness ==
  /\ last.op = "takeTurn" /\ solver.plan.type = "rotate"
  /\ NeedsMove(solver, solver.plan.index)
  /\ ~NeedsRotate(solver, solver.plan.index)

\* C19: when every matched pair is within the position and the orientation
\* tolerance the Solver is SOLVED: takeTurn reports that it has finished,
\* with no plan, and changes no piece; the Solver is SOLVED after the call,
\* so that every later call does the same; the Planner returns the flag
\* False and no actions.
C19_SolvedIsQuiet ==
  [][TurnTaken /\ SolverState(Before) = "SOLVED" =>
       /\ solver'.plan = NoPlan
       /\ solver'.current = solver.current
       /\ solver'.turns = solver.turns
       /\ SolverState(solver') = "SOLVED"
       /\ last'.op = "takeTurn" => last'.outcome = "finished"
       /\ last'.op = "planner.process" =>
            /\ last'.outcome = "ok"
            /\ last'.sel = <<"False", "None", "None">>]_vars

\* C19 witness: the Solver has moved pieces into place and is SOLVED with
\* two matched pairs, and the Planner has returned.
C19_Witness ==
  /\ last.op = "planner.process" /\ last.outcome = "ok"
  /\ SolverState(solver) = "SOLVED"
  /\ Len(solver.match) = 2 /\ solver.turns >= 1

\* C20: with the assignment fixed and the measured Board changed by the
\* emitted actions only, calling takeTurn again and again reaches the report
\* that the Solver has finished, after at most one rotate and one move per
\* matched piece: the drivers' loops end; a pair once within the tolerances
\* is never outstanding again.
C20_TurnsEnd ==
  /\ [][/\ solver'.turns <= 2 * Len(solver'.match)
        /\ solver'.match = solver.match =>
             \A k \in 1..Len(solver.match) :
               /\ ~NeedsRotate(solver, k) => ~NeedsRotate(solver', k)
               /\ k \notin Outstanding(solver) => k \notin Outstanding(solver')
       ]_vars
  /\ <>(last.op = "takeTurn" /\ last.outcome = "finished")

\* C20 witness: the Solver has finished after two turns for each of two
\* matched pieces.
C20_Witness ==
  /\ last.op = "takeTurn" /\ last.outcome = "finished"
  /\ Len(solver.match) = 2 /\ solver.turns = 4

\* C21: every call of Agent.process(meaBoard) runs Manager.process once
\* and Solver.takeTurn once, on the first call (nothing cached) and on
\* every later call.
C21_OnePassPerCall ==
  last.op = "agent.process" => agent.managerRuns = 1 /\ agent.turnRuns = 1

\* C22: in every call of Planner_Base.process(meaBoard), alone or made by
\* an Agent, the Manager is run on the Board handed to the call, and when
\* takeTurn begins the Solver holds that Board and the assignment the
\* Manager made of it in this call.
C22_PassOnBoardHanded ==
  last.op \in {"planner.process", "agent.process"} =>
    /\ frame.managed = frame.meaBoard
    /\ frame.current = frame.meaBoard
    /\ frame.match = Assign(frame.scores, {}, {})
    /\ \A k \in 1..Len(frame.match) :
         frame.match[k][1] + 1 \in DOMAIN frame.current

\* C22 witness: a Planner that held a Board with a match from an earlier
\* call has been handed another Board, on which nothing is matched.
C22_Witness ==
  /\ last.op = "planner.process"
  /\ solver.turns >= 1
  /\ frame.match = <<>>
  /\ frame.meaBoard[1].rLoc = <<500, 0>>

\* C27: Planner_Base.process returns a triple: (False, None, None) when
\* the Solver reports no plan, else the flag True with the actions and
\* their arguments; it does not raise.
C27_ReturnsTriple ==
  last.op = "planner.process" =>
    /\ last.outcome = "ok"
    /\ Len(last.sel) = 3
    /\ last.sel[1] \in {"True", "False"}
    /\ last.sel[1] = "False" => last.sel[2] = "None" /\ last.sel[3] = "None"

\* The boxes of the regions mask2regions returned, and the position of the
\* first contour of cnts with a given box
BoxesOf(regions) == {regions[i].box : i \in 1..Len(regions)}
FirstAt(cnts, box) ==
  CHOOSE k \in 1..Len(cnts) :
    /\ BoxOf(cnts[k].rect) = box
    /\ \A j \in 1..(k - 1) : BoxOf(cnts[j].rect) # box

\* C23: mask2regions accepts regions in contour order and discards a region
\* iff its box has IoU > 0.5 with a region accepted earlier: no two regions
\* returned have IoU > 0.5, the regions returned follow the order of the
\* contours, and every contour that is not among them overlaps a region
\* accepted before it by more than 0.5.
C23_DuplicatesSuppressed ==
  (last.op = "measure" /\ last.outcome = "ok") =>
    LET cnts == last.sel[1]
        regions == last.sel[2]
    IN  /\ \A i, j \in 1..Len(regions) :
             i # j => ~IoUAboveHalf(regions[i].box, regions[j].box)
        /\ \A i \in 1..Len(regions) :
             \E k \in 1..Len(cnts) : BoxOf(cnts[k].rect) = regions[i].box
        /\ \A i, j \in 1..Len(regions) :
             i < j => FirstAt(cnts, regions[i].box) < FirstAt(cnts, regions[j].box)
        /\ \A k \in 1..Len(cnts) :
             \/ \E i \in 1..Len(regions) :
                  /\ FirstAt(cnts, regions[i].box) < k
                  /\ IoUAboveHalf(regions[i].box, BoxOf(cnts[k].rect))
             \/ /\ BoxOf(cnts[k].rect) \in BoxesOf(regions)
                /\ FirstAt(cnts, BoxOf(cnts[k].rect)) = k

\* C23 witness: of three contours the second is discarded for the first,
\* and the third, which overlaps the discarded one by more than 0.5 and the
\* first by exactly 0.5, is kept.
C23_Witness ==
  /\ last.op = "measure" /\ last.outcome = "ok"
  /\ Len(last.sel[1]) = 3
  /\ Len(last.sel[2]) = 2
  /\ IoUAboveHalf(BoxOf(last.sel[1][2].rect), BoxOf(last.sel[1][3].rect))
  /\ last.sel[2][2].box = BoxOf(last.sel[1][3].rect)

\* C24: after every call of measure the measured Board holds the pieces
\* built from the regions accepted in that frame (none when the frame has
\* none), in their order and with the ids 0..n-1, and no piece of an earlier
\* frame.
C24_BoardIsThisFrame ==
  last.op = "measure" =>
    LET regions == last.sel[2]
        ps == parser.bMeas.pieces
    IN  /\ Len(ps) = Len(regions)
        /\ \A k \in 1..Len(ps) :
             /\ ps[k].id = k - 1
             /\ ps[k].rLoc = regions[k].loc
             /\ ps[k].size = regions[k].size
             /\ ps[k].born = parser.frames

\* C25: a Board obtained from getState is a snapshot: whatever is measured
\* later, its pieces, ids and size are those it had when it was returned.
C25_StateIsSnapshot ==
  tstate.ref # "None" => BoardAt(tstate.ref) = tstate.seen

\* C30: measure does not raise; a frame without a piece leaves the measured
\* Board empty and haveMeas False; haveMeas is True iff the measured Board
\* is not empty, and then tpt holds one location for each of its pieces.
C30_EmptyFrameHandled ==
  /\ last.op = "measure" => last.outcome = "ok"
  /\ (last.op = "measure" /\ last.sel[2] = <<>>) =>
       parser.bMeas.pieces = <<>> /\ ~parser.haveMeas
  /\ parser.haveMeas <=> parser.bMeas.pieces # <<>>
  /\ parser.haveMeas =>
       /\ Len(parser.tpt) = Len(parser.bMeas.pieces)
       /\ \A k \in 1..Len(parser.tpt) :
            parser.tpt[k] = parser.bMeas.pieces[k].rLoc

\* The tight box of a Board with pieces: the least location and the
\* greatest location + size, coordinate by coordinate
Least(S) == CHOOSE x \in S : \A y \in S : x <= y
Greatest(S) == CHOOSE x \in S : \A y \in S : x >= y
TightBox(b) ==
  LET ps == Range(Items(b)) IN
  << <<Least({rLoc[p][1] : p \in ps}), Least({rLoc[p][2] : p \in ps})>>,
     <<Greatest({rLoc[p][1] + PieceSize(p)[1] : p \in ps}),
       Greatest({rLoc[p][2] + PieceSize(p)[2] : p \in ps})>> >>

\* C28: on every Board with pieces boundingBox() returns the tight box: the
\* componentwise minimum of the locations and the componentwise maximum of
\* location + size, also when every piece lies at negative coordinates.
C28_BoxIsTight ==
  (last.op = "boundingBox" /\ last.outcome = "ok") =>
    BoundingBox(last.board) = TightBox(last.board)

\* C26: toImage on a canvas handed in succeeds whenever the canvas is at
\* least as wide and as high as the extents of the Board, and raises the
\* canvas-too-small error, with nothing written, whenever it is not.
C26_CanvasLargeEnough ==
  (last.op = "toImage" /\ last.sel[1] # NoCanvas /\ Size(last.board) > 0) =>
    LET rows == last.sel[1][1]
        columns == last.sel[1][2]
        lengths == Extents(last.board)
    IN  IF columns >= lengths[1] /\ rows >= lengths[2]
          THEN last.outcome = "ok"
          ELSE /\ last.outcome = "RuntimeError"
               /\ last.sel[3] = {} /\ last.sel[4] = {}

\* C29: toImage writes every piece of the Board at its location minus the
\* least corner of the bounding box, on a canvas of its own or on one handed
\* in, with ID_DISPLAY or without; ID_DISPLAY only adds the id labels.
C29_EveryPieceDrawn ==
  (last.op = "toImage" /\ last.outcome = "ok") =>
    /\ last.sel[3] =
         {<<p, StampAt(p, BoundingBox(last.board))>> :
            p \in Range(Items(last.board))}
    /\ last.sel[4] =
         IF last.sel[2]
           THEN {pid[p] : p \in Range(Items(last.board))} ELSE {}

====
